---- MODULE Spec2Model ----
(***************************************************************************)
(* midiparser.py (Python 2.7): MidiHandler builds, at construction, one    *)
(* dense per-tick timeline of MidiNote objects per midi track              *)
(* (_create_timeline) and down-samples each timeline into a beat track by  *)
(* asking collections.Counter for the most common element of every window  *)
(* of beat_resolution ticks (_convert).                                    *)
(*                                                                         *)
(* MidiNote defines __eq__ and no __hash__, so under Python 2.7 a MidiNote *)
(* hashes by its address: a dict (and so a Counter) never finds two        *)
(* different MidiNote objects under the same key.  Every MidiNote of the   *)
(* model therefore carries the identity of the object, id.  The iteration  *)
(* order of a Python 2.7 dict follows the hashes, here the addresses, so   *)
(* the element Counter.most_common(1) returns among several of the highest *)
(* count is a nondeterministic choice.                                     *)
(***************************************************************************)
EXTENDS Integers, Sequences, FiniteSets, TLC

VARIABLES
    pc,             \* position in MidiHandler.__init__ / state of the handler
    midi_resolution,\* self.midi_resolution (ticks per beat of the file)
    sample_rate,    \* self.sample_rate
    include_pauses, \* self.include_pauses
    beat_resolution,\* self.beat_resolution
    midi_file,      \* the tracks of self._midi_file iterated so far, each a list of events
    track_events,   \* the events of the current track iterated so far
    track_timeline, \* _create_timeline: track_timeline
    queued_note,    \* _create_timeline: queued_note
    timelines,      \* self.timelines
    tracks,         \* self.tracks
    rerun_tracks,   \* self.tracks of a second MidiHandler built from the same file and arguments
    timeline_index, \* _convert: position of the loop over self.timelines
    num_beats,      \* _convert: num_beats
    beat,           \* _convert: beat
    track,          \* _convert: track
    rerun_track,    \* _convert: track, in the second MidiHandler
    next_id,        \* identity of the next MidiNote object allocated
    error,          \* the exception that ended construction, "" if none
    query,          \* the last get_notes / get_velocities call and what it gave
    cmp             \* two MidiNote constructions and the result of __eq__ on them

vars == <<pc, midi_resolution, sample_rate, include_pauses, beat_resolution, midi_file,
          track_events, track_timeline, queued_note, timelines, tracks, rerun_tracks,
          timeline_index, num_beats, beat, track, rerun_track, next_id, error, query, cmp>>

----------------------------------------------------------------------------
(* Bounds of the model *)

MaxFile == 4        \* size of the midi file: its tracks plus the events in them

Deltas == {0, 1, 2}         \* event.tick
Resolutions == {7}
SampleRates == {-1, 0, 2, 3, 8}
Pitches == {48, 60}
Velocities == {100}
TrackArgs == {-1, 1}        \* the track indices get_notes / get_velocities are called with

\* the arguments __eq__ is exercised on: the notes MidiNote(value, velocity) of some
\* pitches and velocities, and the pause MidiNote(), value=None (here -1) and velocity=0
EqPitches == {0, 11, 12, 23, 48, 60, 61, 127}
EqVelocities == {0, 64, 127}
EqArgs == {<<-1, 0>>} \cup (EqPitches \X EqVelocities)

----------------------------------------------------------------------------
(* Python helpers *)

\* Python 2 int / int: floor division, also for a negative divisor
PyDiv(a, b) == IF b > 0 THEN a \div b ELSE (0 - a) \div (0 - b)

Digits == <<"0", "1", "2", "3", "4", "5", "6", "7", "8", "9">>

\* str(n) for n >= 0
RECURSIVE str(_)
str(n) == IF n < 10 THEN Digits[n + 1] ELSE str(n \div 10) \o Digits[(n % 10) + 1]

\* range(n) as the set of its values; empty for n <= 0
range(n) == 0 .. (n - 1)

\* the Python value None, where a MidiNote may stand
None == [id |-> 0, note |-> "None", level |-> "", velocity |-> 0]

----------------------------------------------------------------------------
(* class MidiNote *)

valid_notes == <<"C", "Db", "D", "Eb", "E", "F", "Gb", "G", "Ab", "A", "Bb", "B">>

\* MidiNote.__init__(value, velocity); value = -1 stands for value=None; id is the
\* identity of the new object
MidiNote(value, velocity, id) ==
    IF value = -1
    THEN [id |-> id, note |-> "1", level |-> "", velocity |-> velocity]
    ELSE [id |-> id, note |-> valid_notes[(value % Len(valid_notes)) + 1],
          level |-> str(PyDiv(value, Len(valid_notes))), velocity |-> velocity]

\* MidiNote() : a pause
Pause(id) == MidiNote(-1, 0, id)

\* MidiNote.__eq__
NoteEq(self, other) == self.note = other.note /\ self.velocity = other.velocity

\* MidiNote.read_note
read_note(self) == self.note \o self.level

\* MidiNote.read_velocity
read_velocity(self) == self.velocity

NoCmp == [x_value |-> -1, x_velocity |-> 0, y_value |-> -1, y_velocity |-> 0,
          x |-> None, y |-> None, state |-> "idle", result |-> FALSE]

----------------------------------------------------------------------------
(* midi events *)

NoteOnEvents == [kind : {"NoteOnEvent"}, pitch : Pitches, velocity : Velocities,
                 tick : Deltas]
NoteOffEvents == [kind : {"NoteOffEvent"}, pitch : {0}, velocity : {0}, tick : Deltas]
OtherEvents == [kind : {"OtherEvent"}, pitch : {0}, velocity : {0}, tick : {1}]

RECURSIVE TotalEvents(_)
TotalEvents(file) == IF file = <<>> THEN 0 ELSE Len(Head(file)) + TotalEvents(Tail(file))

\* the tracks and events of the file iterated so far
FileSize ==
    Len(midi_file) + TotalEvents(midi_file)
        + (IF pc = "events" THEN 1 + Len(track_events) ELSE 0)

Init ==
    /\ pc = "init"
    /\ midi_resolution \in Resolutions
    /\ sample_rate \in SampleRates
    /\ include_pauses = TRUE        \* the default of the parameter; nothing reads it
    /\ beat_resolution = 0
    /\ midi_file = <<>>
    /\ track_events = <<>>
    /\ track_timeline = <<>>
    /\ queued_note = None
    /\ timelines = <<>>
    /\ tracks = <<>>
    /\ rerun_tracks = <<>>
    /\ timeline_index = 0
    /\ num_beats = 0
    /\ beat = 0
    /\ track = <<>>
    /\ rerun_track = <<>>
    /\ next_id = 1
    /\ error = ""
    /\ query = [op |-> "", track |-> 0, result |-> <<>>, raised |-> ""]
    /\ cmp = NoCmp

----------------------------------------------------------------------------
(* MidiHandler.__init__, lines 32-38 *)

BeatResolution(resolution, rate) == PyDiv(resolution, rate)

\* self.midi_resolution / self.sample_rate raises ZeroDivisionError for sample_rate = 0
Construct ==
    /\ pc = "init"
    /\ IF sample_rate = 0
       THEN /\ pc' = "Error"
            /\ error' = "ZeroDivisionError"
            /\ UNCHANGED beat_resolution
       ELSE /\ pc' = "tracks"
            /\ beat_resolution' = BeatResolution(midi_resolution, sample_rate)
            /\ UNCHANGED error
    /\ UNCHANGED <<midi_resolution, sample_rate, include_pauses, midi_file, track_events,
                   track_timeline, queued_note, timelines, tracks, rerun_tracks,
                   timeline_index, num_beats, beat, track, rerun_track, next_id, query, cmp>>

----------------------------------------------------------------------------
(* MidiHandler._create_timeline *)

\* a NoteOn that keeps the note already queued
QueuedKeepsFirst(queued, event, id) ==
    IF queued # None THEN queued ELSE MidiNote(event.pitch, event.velocity, id)

\* line 53: queued_note after a NoteOnEvent
QueuedAfterNoteOn(queued, event, id) == MidiNote(event.pitch, event.velocity, id)

\* lines 54-56: one new pause per tick of the NoteOnEvent
NoteOnTicks(n, first_id) == [i \in 1 .. n |-> Pause(first_id + i - 1)]

\* an instance of MidiNote is true; None is false
Truthy(note) == note # None

\* lines 58-59: queued_note or MidiNote(), evaluated once per tick
NoteOffTicks(queued, n, first_id) ==
    [i \in 1 .. n |-> IF Truthy(queued) THEN queued ELSE Pause(first_id + i - 1)]

\* a timeline kept whatever its length
KeepTimelineAlways(timeline) == TRUE

\* line 60
KeepTimeline(timeline) == Len(timeline) > 0

\* a NoteOff that turns the queued note off
QueuedCleared(queued) == None

\* lines 57-59: the NoteOff branch does not assign queued_note
QueuedAfterNoteOff(queued) == queued

\* line 48: the loop takes the next track of the file; lines 49-50
BeginTrack ==
    /\ pc = "tracks"
    /\ FileSize < MaxFile
    /\ pc' = "events"
    /\ track_events' = <<>>
    /\ track_timeline' = <<>>
    /\ queued_note' = None
    /\ UNCHANGED <<midi_resolution, sample_rate, include_pauses, beat_resolution, midi_file,
                   timelines, tracks, rerun_tracks, timeline_index, num_beats, beat, track,
                   rerun_track, next_id, error, query, cmp>>

CanReadEvent == pc = "events" /\ FileSize < MaxFile

\* lines 52-56
NoteOnEvent(event) ==
    /\ CanReadEvent
    /\ track_events' = Append(track_events, event)
    /\ queued_note' = QueuedAfterNoteOn(queued_note, event, next_id)
    /\ track_timeline' = track_timeline \o NoteOnTicks(event.tick, next_id + 1)
    /\ next_id' = next_id + 1 + event.tick
    /\ UNCHANGED <<pc, midi_resolution, sample_rate, include_pauses, beat_resolution,
                   midi_file, timelines, tracks, rerun_tracks, timeline_index, num_beats,
                   beat, track, rerun_track, error, query, cmp>>

\* lines 57-59
NoteOffEvent(event) ==
    /\ CanReadEvent
    /\ track_events' = Append(track_events, event)
    /\ queued_note' = QueuedAfterNoteOff(queued_note)
    /\ track_timeline' = track_timeline \o NoteOffTicks(queued_note, event.tick, next_id)
    /\ next_id' = IF Truthy(queued_note) THEN next_id ELSE next_id + event.tick
    /\ UNCHANGED <<pc, midi_resolution, sample_rate, include_pauses, beat_resolution,
                   midi_file, timelines, tracks, rerun_tracks, timeline_index,
                   num_beats, beat, track, rerun_track, error, query, cmp>>

\* an event that is neither a NoteOnEvent nor a NoteOffEvent: no branch is taken
OtherEvent(event) ==
    /\ CanReadEvent
    /\ track_events' = Append(track_events, event)
    /\ UNCHANGED <<pc, midi_resolution, sample_rate, include_pauses, beat_resolution,
                   midi_file, track_timeline, queued_note, timelines, tracks, rerun_tracks,
                   timeline_index, num_beats, beat, track, rerun_track, next_id, error,
                   query, cmp>>

\* line 51 ends; lines 60-61
EndTrack ==
    /\ pc = "events"
    /\ pc' = "tracks"
    /\ midi_file' = Append(midi_file, track_events)
    /\ timelines' = IF KeepTimeline(track_timeline)
                    THEN Append(timelines, track_timeline) ELSE timelines
    /\ UNCHANGED <<midi_resolution, sample_rate, include_pauses, beat_resolution,
                   track_events, track_timeline, queued_note, tracks, rerun_tracks,
                   timeline_index, num_beats, beat, track, rerun_track, next_id, error,
                   query, cmp>>

\* line 48 ends: the file has no more tracks; line 40 calls _convert
EndFile ==
    /\ pc = "tracks"
    /\ pc' = "convert"
    /\ timeline_index' = 1
    /\ UNCHANGED <<midi_resolution, sample_rate, include_pauses, beat_resolution, midi_file,
                   track_events, track_timeline, queued_note, timelines, tracks,
                   rerun_tracks, num_beats, beat, track, rerun_track, next_id, error,
                   query, cmp>>

----------------------------------------------------------------------------
(* MidiHandler._convert *)

\* a trailing partial window counted as a beat
NumBeatsRoundedUp(timeline_length, resolution) ==
    PyDiv(timeline_length + resolution - 1, resolution)

\* line 72
NumBeats(timeline_length, resolution) == PyDiv(timeline_length, resolution)

\* lines 74-76: timeline[beat_start:beat_end] for 0 <= beat_start <= beat_end
SubTimeline(timeline, beat_start, beat_end) ==
    SubSeq(timeline, beat_start + 1, IF beat_end < Len(timeline) THEN beat_end ELSE Len(timeline))

\* hash(note): MidiNote defines no __hash__, so it is object.__hash__, by address
Hash(note) == note.id

\* the key comparison of a dict: equal hashes, and then the same object or __eq__
SameKey(a, b) == Hash(a) = Hash(b) /\ (a.id = b.id \/ NoteEq(a, b))

\* the keys of Counter(sub_timeline): the first element of every group of same keys
CounterKeys(sub_timeline) ==
    {sub_timeline[i] : i \in {j \in DOMAIN sub_timeline :
        \A k \in 1 .. (j - 1) : ~SameKey(sub_timeline[k], sub_timeline[j])}}

\* Counter(sub_timeline)[key]
Count(key, sub_timeline) ==
    Cardinality({i \in DOMAIN sub_timeline : SameKey(key, sub_timeline[i])})

\* line 77: what Counter(sub_timeline).most_common(1)[0][0] can be. most_common(1) is
\* the max over the items of the dict by count: the first of the highest count in the
\* iteration order of the dict, which follows the addresses of the keys.
MostCommon(sub_timeline) ==
    {key \in CounterKeys(sub_timeline) :
        \A other \in CounterKeys(sub_timeline) :
            Count(key, sub_timeline) >= Count(other, sub_timeline)}

\* line 69 takes the next timeline; lines 70-72. len / 0 raises ZeroDivisionError
BeginConvert ==
    /\ pc = "convert"
    /\ timeline_index <= Len(timelines)
    /\ IF beat_resolution = 0
       THEN /\ pc' = "Error"
            /\ error' = "ZeroDivisionError"
            /\ UNCHANGED <<num_beats, beat, track, rerun_track>>
       ELSE /\ pc' = "beats"
            /\ num_beats' = NumBeats(Len(timelines[timeline_index]), beat_resolution)
            /\ beat' = 0
            /\ track' = <<>>
            /\ rerun_track' = <<>>
            /\ UNCHANGED error
    /\ UNCHANGED <<midi_resolution, sample_rate, include_pauses, beat_resolution, midi_file,
                   track_events, track_timeline, queued_note, timelines, tracks,
                   rerun_tracks, timeline_index, next_id, query, cmp>>

\* lines 73-78: one beat. The second handler takes its own most common note.
ConvertBeat ==
    /\ pc = "beats"
    /\ beat \in range(num_beats)
    /\ LET beat_start == beat * beat_resolution
           beat_end == (beat + 1) * beat_resolution
           sub_timeline == SubTimeline(timelines[timeline_index], beat_start, beat_end)
       IN \E winning_note \in MostCommon(sub_timeline), rerun_note \in MostCommon(sub_timeline) :
            /\ track' = Append(track, winning_note)
            /\ rerun_track' = Append(rerun_track, rerun_note)
    /\ beat' = beat + 1
    /\ UNCHANGED <<pc, midi_resolution, sample_rate, include_pauses, beat_resolution,
                   midi_file, track_events, track_timeline, queued_note, timelines, tracks,
                   rerun_tracks, timeline_index, num_beats, next_id, error, query, cmp>>

\* line 73 ends; line 79
EndConvert ==
    /\ pc = "beats"
    /\ beat \notin range(num_beats)
    /\ pc' = "convert"
    /\ tracks' = Append(tracks, track)
    /\ rerun_tracks' = Append(rerun_tracks, rerun_track)
    /\ timeline_index' = timeline_index + 1
    /\ UNCHANGED <<midi_resolution, sample_rate, include_pauses, beat_resolution, midi_file,
                   track_events, track_timeline, queued_note, timelines, num_beats, beat,
                   track, rerun_track, next_id, error, query, cmp>>

\* line 69 ends: __init__ returns
Built ==
    /\ pc = "convert"
    /\ timeline_index > Len(timelines)
    /\ pc' = "Built"
    /\ UNCHANGED <<midi_resolution, sample_rate, include_pauses, beat_resolution, midi_file,
                   track_events, track_timeline, queued_note, timelines, tracks,
                   rerun_tracks, timeline_index, num_beats, beat, track, rerun_track,
                   next_id, error, query, cmp>>

----------------------------------------------------------------------------
(* The queries of a built MidiHandler *)

num_tracks == Len(tracks)

\* list[index] of Python: -len <= index < len, a negative index counts from the end
IndexInRange(list, index) == (0 - Len(list)) <= index /\ index < Len(list)
ListGet(list, index) == IF index < 0 THEN list[Len(list) + index + 1] ELSE list[index + 1]

\* lines 122 and 130, for a track that self.tracks[track] finds
NotesOf(beat_track) == [i \in DOMAIN beat_track |-> read_note(beat_track[i])]
VelocitiesOf(beat_track) == [i \in DOMAIN beat_track |-> read_velocity(beat_track[i])]

\* get_notes(track)
GetNotes(t) ==
    /\ pc = "Built"
    /\ query' = IF IndexInRange(tracks, t)
                THEN [op |-> "get_notes", track |-> t,
                      result |-> NotesOf(ListGet(tracks, t)), raised |-> ""]
                ELSE [op |-> "get_notes", track |-> t, result |-> <<>>,
                      raised |-> "IndexError"]
    /\ UNCHANGED <<pc, midi_resolution, sample_rate, include_pauses, beat_resolution,
                   midi_file, track_events, track_timeline, queued_note, timelines, tracks,
                   rerun_tracks, timeline_index, num_beats, beat, track, rerun_track,
                   next_id, error, cmp>>

\* get_velocities(track)
GetVelocities(t) ==
    /\ pc = "Built"
    /\ query' = IF IndexInRange(tracks, t)
                THEN [op |-> "get_velocities", track |-> t,
                      result |-> VelocitiesOf(ListGet(tracks, t)), raised |-> ""]
                ELSE [op |-> "get_velocities", track |-> t, result |-> <<>>,
                      raised |-> "IndexError"]
    /\ UNCHANGED <<pc, midi_resolution, sample_rate, include_pauses, beat_resolution,
                   midi_file, track_events, track_timeline, queued_note, timelines, tracks,
                   rerun_tracks, timeline_index, num_beats, beat, track, rerun_track,
                   next_id, error, cmp>>

----------------------------------------------------------------------------

Next ==
    \/ Construct
    \/ BeginTrack
    \/ \E event \in NoteOnEvents : NoteOnEvent(event)
    \/ \E event \in NoteOffEvents : NoteOffEvent(event)
    \/ \E event \in OtherEvents : OtherEvent(event)
    \/ EndTrack
    \/ EndFile
    \/ BeginConvert
    \/ ConvertBeat
    \/ EndConvert
    \/ Built

\* the construction of a MidiHandler
Spec == Init /\ [][Next]_vars

QueryNext ==
    \/ Next
    \/ \E t \in TrackArgs : GetNotes(t)
    \/ \E t \in TrackArgs : GetVelocities(t)

\* the construction of a MidiHandler, and then calls of get_notes and get_velocities
QuerySpec == Init /\ [][QueryNext]_vars

----------------------------------------------------------------------------
(* MidiNote.__eq__ on its own: two notes are constructed and compared *)

EqInit ==
    /\ pc = "eq"
    /\ midi_resolution = 0
    /\ sample_rate = 0
    /\ include_pauses = TRUE
    /\ beat_resolution = 0
    /\ midi_file = <<>>
    /\ track_events = <<>>
    /\ track_timeline = <<>>
    /\ queued_note = None
    /\ timelines = <<>>
    /\ tracks = <<>>
    /\ rerun_tracks = <<>>
    /\ timeline_index = 0
    /\ num_beats = 0
    /\ beat = 0
    /\ track = <<>>
    /\ rerun_track = <<>>
    /\ next_id = 1
    /\ error = ""
    /\ query = [op |-> "", track |-> 0, result |-> <<>>, raised |-> ""]
    /\ \E x \in EqArgs, y \in EqArgs :
          cmp = [NoCmp EXCEPT !.x_value = x[1], !.x_velocity = x[2],
                              !.y_value = y[1], !.y_velocity = y[2], !.state = "args"]

EqUnchanged ==
    UNCHANGED <<pc, midi_resolution, sample_rate, include_pauses, beat_resolution, midi_file,
                track_events, track_timeline, queued_note, timelines, tracks, rerun_tracks,
                timeline_index, num_beats, beat, track, rerun_track, error, query>>

\* x = MidiNote(x_value, x_velocity); y = MidiNote(y_value, y_velocity)
EqConstruct ==
    /\ pc = "eq"
    /\ cmp.state = "args"
    /\ cmp' = [cmp EXCEPT !.x = MidiNote(cmp.x_value, cmp.x_velocity, next_id),
                          !.y = MidiNote(cmp.y_value, cmp.y_velocity, next_id + 1),
                          !.state = "built"]
    /\ next_id' = next_id + 2
    /\ EqUnchanged

\* x == y
EqCompare ==
    /\ pc = "eq"
    /\ cmp.state = "built"
    /\ cmp' = [cmp EXCEPT !.result = NoteEq(cmp.x, cmp.y), !.state = "done"]
    /\ UNCHANGED next_id
    /\ EqUnchanged

EqNext == EqConstruct \/ EqCompare

EqSpec == EqInit /\ [][EqNext]_vars

----------------------------------------------------------------------------
(* What the properties below are stated with *)

SetMin(S) == CHOOSE x \in S : \A y \in S : x <= y
SetMax(S) == CHOOSE x \in S : \A y \in S : x >= y

IsNoteEvent(event) == event.kind \in {"NoteOnEvent", "NoteOffEvent"}

\* the ticks the NoteOn and NoteOff events of a track add up to
RECURSIVE TickSum(_)
TickSum(events) ==
    IF events = <<>> THEN 0
    ELSE (IF IsNoteEvent(Head(events)) THEN Head(events).tick ELSE 0) + TickSum(Tail(events))

IsRest(note) == note.note = "1" /\ note.level = ""

\* the equality of Notes by value: both rests, or the same pitch and the same velocity
SameNote(a, b) ==
    \/ IsRest(a) /\ IsRest(b)
    \/ /\ ~IsRest(a) /\ ~IsRest(b)
       /\ a.note = b.note /\ a.level = b.level /\ a.velocity = b.velocity

CountSame(note, window) == Cardinality({j \in DOMAIN window : SameNote(window[j], note)})

\* the ticks [(i-1)*beat_resolution, i*beat_resolution) of timeline k, i counted from 1
Window(k, i) ==
    [j \in 1 .. beat_resolution |-> timelines[k][(i - 1) * beat_resolution + j]]

\* the beats converted so far, as (timeline, beat) pairs
ConvertedBeats ==
    UNION {{<<k, i>> : i \in 1 .. Len(tracks[k])} : k \in 1 .. Len(tracks)}

\* C1. Majority vote: the note of every converted beat occurs in its window, counted
\* by the equality of Notes by value, at least as often as every other note of the window.
MajorityVote ==
    \A ki \in ConvertedBeats :
        LET window == Window(ki[1], ki[2])
            chosen == tracks[ki[1]][ki[2]]
        IN \A j \in DOMAIN window :
              CountSame(chosen, window) >= CountSame(window[j], window)

\* C2. Tie-break: when two or more different notes (by value) share the highest count
\* of a window, the note of the beat is the one among them that occurs first in the window.
TieBreakFirstOccurrence ==
    \A ki \in ConvertedBeats :
        LET window == Window(ki[1], ki[2])
            chosen == tracks[ki[1]][ki[2]]
            highest == {j \in DOMAIN window :
                          \A m \in DOMAIN window :
                              CountSame(window[j], window) >= CountSame(window[m], window)}
        IN (\E j, m \in highest : ~SameNote(window[j], window[m]))
              => SameNote(chosen, window[SetMin(highest)])

\* C3. Length law: a handler built with beat_resolution > 0 has
\* beat_resolution = floor(resolution / sample_rate) and, for every timeline k, a beat
\* track of floor(len(timelines[k]) / beat_resolution) notes, the note of beat i being
\* one of the ticks of window i.
LengthLaw ==
    (pc = "Built" /\ beat_resolution > 0) =>
        /\ sample_rate > 0
        /\ beat_resolution = midi_resolution \div sample_rate
        /\ Len(tracks) = Len(timelines)
        /\ \A k \in 1 .. Len(timelines) :
              /\ Len(tracks[k]) = Len(timelines[k]) \div beat_resolution
              /\ \A i \in 1 .. Len(tracks[k]) :
                    /\ i * beat_resolution <= Len(timelines[k])
                    /\ \E j \in 1 .. beat_resolution : tracks[k][i] = Window(k, i)[j]

\* C3 happens: a built handler with a full window and a trailing partial window
LengthLawWitness ==
    /\ pc = "Built"
    /\ beat_resolution = 3
    /\ \E k \in 1 .. Len(timelines) : Len(timelines[k]) = 4 /\ Len(tracks[k]) = 1

\* C5. Configuration errors: sample_rate <= 0, or a beat_resolution <= 0, never gives a
\* built handler.
ConfigurationRejected ==
    (sample_rate <= 0 \/ PyDiv(midi_resolution, sample_rate) <= 0) => pc # "Built"

\* C6. Track index errors: get_notes and get_velocities raise for every track index
\* outside [0, num_tracks()).
TrackIndexChecked ==
    (query.op # "" /\ ~(0 <= query.track /\ query.track < num_tracks))
        => query.raised = "IndexError"

\* C10. Determinism: two handlers built from the same file and the same arguments give
\* the same note names and the same velocities, track by track.
Determinism ==
    pc = "Built" =>
        /\ Len(rerun_tracks) = Len(tracks)
        /\ \A k \in 1 .. Len(tracks) :
              /\ NotesOf(rerun_tracks[k]) = NotesOf(tracks[k])
              /\ VelocitiesOf(rerun_tracks[k]) = VelocitiesOf(tracks[k])

\* C4. Note equality: x == y exactly when both are rests, or both have the same pitch
\* and the same velocity.
NoteEquality ==
    cmp.state = "done" =>
        (cmp.result <=>
            \/ cmp.x_value = -1 /\ cmp.y_value = -1
            \/ /\ cmp.x_value # -1 /\ cmp.y_value # -1
               /\ cmp.x_value = cmp.y_value /\ cmp.x_velocity = cmp.y_velocity)

\* the indices of the NoteOn events of a track
NoteOns(events) == {j \in DOMAIN events : events[j].kind = "NoteOnEvent"}

\* a note without its identity
Value(note) == [note EXCEPT !.id = 0]

\* what the active-note invariant asks of every tick of a track, in order: a rest for
\* the ticks of a NoteOn and for the ticks of a NoteOff with no note active, the note of
\* the NoteOn for the ticks of the first NoteOff after it. active is the NoteOn event
\* whose note is active, <<>> if none is.
RECURSIVE ActiveTicks(_, _)
ActiveTicks(events, active) ==
    IF events = <<>> THEN <<>>
    ELSE LET event == Head(events) IN
         IF event.kind = "NoteOnEvent"
         THEN [j \in 1 .. event.tick |-> Pause(0)] \o ActiveTicks(Tail(events), <<event>>)
         ELSE IF event.kind = "NoteOffEvent"
         THEN [j \in 1 .. event.tick |->
                  IF active = <<>> THEN Pause(0)
                  ELSE MidiNote(active[1].pitch, active[1].velocity, 0)]
              \o ActiveTicks(Tail(events), <<>>)
         ELSE ActiveTicks(Tail(events), active)

\* C7. Active-note invariant: the ticks of the first NoteOff after a NoteOn hold the
\* note of that NoteOn; every tick with no active note is a rest, the ticks of a
\* NoteOff that follows a NoteOff with no NoteOn in between among them.
ActiveNoteInvariant ==
    pc = "events" =>
        LET asked == ActiveTicks(track_events, <<>>) IN
        /\ Len(track_timeline) = Len(asked)
        /\ \A j \in DOMAIN asked : SameNote(track_timeline[j], asked[j])

\* what the timeline of a track holds when a NoteOff leaves the queued note queued: a
\* rest for the ticks of a NoteOn and for the ticks of a NoteOff before any NoteOn, the
\* note of the last NoteOn before it for the ticks of every other NoteOff
RECURSIVE QueuedTicks(_, _)
QueuedTicks(events, queued) ==
    IF events = <<>> THEN <<>>
    ELSE LET event == Head(events) IN
         IF event.kind = "NoteOnEvent"
         THEN [j \in 1 .. event.tick |-> Pause(0)] \o QueuedTicks(Tail(events), <<event>>)
         ELSE IF event.kind = "NoteOffEvent"
         THEN [j \in 1 .. event.tick |->
                  IF queued = <<>> THEN Pause(0)
                  ELSE MidiNote(queued[1].pitch, queued[1].velocity, 0)]
              \o QueuedTicks(Tail(events), queued)
         ELSE QueuedTicks(Tail(events), queued)

\* C7, amended. The ticks of every NoteOff hold the note of the last NoteOn before it,
\* whether or not another NoteOff lies in between; the ticks of a NoteOn, and those of a
\* NoteOff before any NoteOn, are rests.
QueuedNoteInvariant ==
    pc = "events" =>
        LET asked == QueuedTicks(track_events, <<>>) IN
        /\ Len(track_timeline) = Len(asked)
        /\ \A j \in DOMAIN asked : SameNote(track_timeline[j], asked[j])

\* C7 happens: a NoteOn, its NoteOff and one more NoteOff, each NoteOff with ticks, gave
\* a timeline that holds the note of the NoteOn at every tick
QueuedNoteWitness ==
    /\ pc = "events"
    /\ Len(track_events) = 3
    /\ track_events[1].kind = "NoteOnEvent" /\ track_events[1].tick = 0
    /\ track_events[2].kind = "NoteOffEvent" /\ track_events[2].tick = 1
    /\ track_events[3].kind = "NoteOffEvent" /\ track_events[3].tick = 2
    /\ Len(track_timeline) = 3
    /\ \A j \in 1 .. 3 : track_timeline[j] = queued_note

\* C8. Monophonic last-note-wins: while a track is processed, queued_note is the note
\* of the last NoteOn so far, None if there was none; the timeline has one tick per
\* tick of the NoteOn and NoteOff events, and the ticks of a NoteOff just processed are
\* all queued_note itself, or rests if none is queued.
LastNoteWins ==
    pc = "events" =>
        /\ IF NoteOns(track_events) = {}
           THEN queued_note = None
           ELSE LET event == track_events[SetMax(NoteOns(track_events))]
                IN Value(queued_note) = MidiNote(event.pitch, event.velocity, 0)
        /\ Len(track_timeline) = TickSum(track_events)
        /\ (track_events # <<>> /\ track_events[Len(track_events)].kind = "NoteOffEvent") =>
              \A j \in 1 .. track_events[Len(track_events)].tick :
                  LET tick == track_timeline[Len(track_timeline) - j + 1]
                  IN IF NoteOns(track_events) = {} THEN IsRest(tick) ELSE tick = queued_note

\* C8 happens: NoteOn(48) delta 0, NoteOn(60) delta 0, NoteOff delta 2 gave two ticks of
\* the note of pitch 60
LastNoteWinsWitness ==
    /\ pc = "events"
    /\ Len(track_events) = 3
    /\ track_events[1].kind = "NoteOnEvent" /\ track_events[1].pitch = 48
    /\ track_events[1].tick = 0
    /\ track_events[2].kind = "NoteOnEvent" /\ track_events[2].pitch = 60
    /\ track_events[2].tick = 0
    /\ track_events[3].kind = "NoteOffEvent" /\ track_events[3].tick = 2
    /\ Len(track_timeline) = 2
    /\ \A j \in 1 .. 2 : read_note(track_timeline[j]) = "C5"

\* the tracks of the file that add ticks, in the order of the file
TracksWithTicks == SelectSeq([t \in DOMAIN midi_file |-> t], LAMBDA t : TickSum(midi_file[t]) > 0)

NoteIds(notes) == {notes[j].id : j \in DOMAIN notes}

\* C9. Empty-track exclusion: a built handler has one timeline and one beat track per
\* track of the file whose NoteOn and NoteOff ticks sum to more than 0, in the order of
\* the file: timeline k has the ticks of the k-th such track, its notes were made
\* before those of timeline k + 1, and beat track k is made of notes of timeline k.
EmptyTrackExclusion ==
    pc = "Built" =>
        /\ num_tracks = Cardinality({t \in DOMAIN midi_file : TickSum(midi_file[t]) > 0})
        /\ Len(tracks) = Len(timelines)
        /\ Len(timelines) = Len(TracksWithTicks)
        /\ \A k \in 1 .. Len(timelines) :
              /\ Len(timelines[k]) = TickSum(midi_file[TracksWithTicks[k]])
              /\ NoteIds(tracks[k]) \subseteq NoteIds(timelines[k])
              /\ k < Len(timelines) =>
                    \A a \in NoteIds(timelines[k]), b \in NoteIds(timelines[k + 1]) : a < b

\* C9 happens: a built handler whose file has a track without ticks before one with ticks
EmptyTrackExclusionWitness ==
    /\ pc = "Built"
    /\ Len(midi_file) = 2
    /\ midi_file[1] # <<>> /\ TickSum(midi_file[1]) = 0
    /\ TickSum(midi_file[2]) > 0
    /\ num_tracks = 1

====
